---- MODULE Spec2Model ----
(***************************************************************************)
(* A model of the TIS-100 style node grid of src/src/main.rs: the Node     *)
(* register machine (Node::step), the four-node sweep (Cpu::step) and the  *)
(* "debugger" loop of main.                                                *)
(*                                                                         *)
(* Rust indexes the program from 0; TLA+ sequences start at 1, so the      *)
(* instruction at program counter pc is opcodes[pc + 1].                   *)
(***************************************************************************)
EXTENDS Integers, Sequences, FiniteSets, TLC

VARIABLES
    nodes,            \* Cpu.nodes: [0..3 -> Node]
    overflow_checks,  \* build profile: TRUE = overflow panics (debug), FALSE = wraps (release)
    loc,              \* position of main's loop: "render", "read", "step", "check", "done"
    cur,              \* position of the iter_mut() loop of Cpu::step (next node index)
    input,            \* main's `input` String, a sequence of characters
    outcome,          \* "running", "quit", "ioerr" or "panic"
    panic,            \* the panic message of the process, or NoPanic
    log,              \* history: per node, the pre-state of every completed Node::step
    snapshot,         \* history: Cpu.nodes when the current sweep / call began
    called,           \* history: index of the node Node::step was last called on, or NoNode
    renders,          \* history: number of println!("{}", cpu) performed
    reads,            \* history: number of read_line calls that returned Ok
    sweeps,           \* history: number of Cpu::step calls that returned
    lines             \* history: what each read_line call that returned Ok appended

vars == <<nodes, overflow_checks, loc, cur, input, outcome, panic,
          log, snapshot, called, renders, reads, sweeps, lines>>

-----------------------------------------------------------------------------
(* Bounds of the model *)

MaxSweeps == 4   \* iterations of main's loop that are explored
MaxSteps == 6    \* direct Node::step calls that are explored

-----------------------------------------------------------------------------
(* Values, ports and opcodes *)

NodeIds == 0..3

Ports == {"Left", "Right", "Up", "Down", "Any", "Last"}

Number(n) == [tag |-> "Number", num |-> n, port |-> "None"]

Port(p) == [tag |-> "Port", num |-> 0, port |-> p]

NoValue == [tag |-> "None", num |-> 0, port |-> "None"]

Add(v) == [op |-> "Add", val |-> v]

Sub(v) == [op |-> "Sub", val |-> v]

Swap == [op |-> "Swap", val |-> NoValue]

Save == [op |-> "Save", val |-> NoValue]

Negate == [op |-> "Negate", val |-> NoValue]

I16Min == -32768

I16Max == 32767

InI16(x) == I16Min <= x /\ x <= I16Max

\* two's complement wrap of a mathematical integer into i16
Wrap16(x) == ((x + 32768) % 65536) - 32768

ClampNone(x, lo, hi) == x

ClampWide(x, lo, hi) == IF x < lo - 1 THEN lo - 1 ELSE IF x > hi + 1 THEN hi + 1 ELSE x

ClampNoUpper(x, lo, hi) == IF x < lo THEN lo ELSE x

\* i16::clamp(min, max)
Clamp(x, lo, hi) == IF x < lo THEN lo ELSE IF x > hi THEN hi ELSE x

\* Node::default()
DefaultNode == [acc |-> 0, bak |-> 0, opcodes |-> << >>, pc |-> 0]

NoPanic == "none"

NoNode == -1

-----------------------------------------------------------------------------
(* Node::step, as a function from the node to its outcome.  A panic leaves  *)
(* the node as it was: every panic site precedes the store it guards.       *)

Ok(n) == [panicked |-> FALSE, node |-> n, msg |-> NoPanic]

Panicked(n, m) == [panicked |-> TRUE, node |-> n, msg |-> m]

ArithStoreFirst(n, r, checks, what) ==
    IF ~InI16(r) /\ checks
    THEN Panicked([n EXCEPT !.acc = Wrap16(r)], what)
    ELSE Ok([n EXCEPT !.acc = Clamp(Wrap16(r), -999, 999)])

\* self.acc += num / self.acc -= num, followed by the clamp
Arith(n, r, checks, what) ==
    IF ~InI16(r) /\ checks
    THEN Panicked(n, what)
    ELSE Ok([n EXCEPT !.acc = Clamp(Wrap16(r), -999, 999)])

AdvanceNoWrap(n) == [n EXCEPT !.pc = n.pc + 1]

AdvanceSkipLast(n) ==
    IF n.pc + 2 >= Len(n.opcodes) THEN [n EXCEPT !.pc = 0]
                                  ELSE [n EXCEPT !.pc = n.pc + 1]

AdvanceConsume(n) == [n EXCEPT !.opcodes = Tail(@)]

AdvanceOffByOne(n) ==
    IF n.pc + 1 > Len(n.opcodes) THEN [n EXCEPT !.pc = 0]
                                 ELSE [n EXCEPT !.pc = n.pc + 1]

\* self.pc += 1; if self.pc >= self.opcodes.len() { self.pc = 0 }
Advance(n) ==
    IF n.pc + 1 >= Len(n.opcodes) THEN [n EXCEPT !.pc = 0]
                                  ELSE [n EXCEPT !.pc = n.pc + 1]

ResolveValueDefault(v) == [panicked |-> FALSE, num |-> v.num]

\* let num = match val { Number(num) => num, Port(_) => unimplemented!() }
ResolveValue(v) ==
    IF v.tag = "Port" THEN [panicked |-> TRUE, num |-> 0]
                      ELSE [panicked |-> FALSE, num |-> v.num]

SwapRegsCopy(n) == [n EXCEPT !.acc = n.bak]

\* std::mem::swap(&mut self.acc, &mut self.bak)
SwapRegs(n) == [n EXCEPT !.acc = n.bak, !.bak = n.acc]

SaveRegsReversed(n) == [n EXCEPT !.acc = n.bak]

\* self.bak = self.acc
SaveRegs(n) == [n EXCEPT !.bak = n.acc]

NegateAccAbs(n, checks) ==
    IF ~InI16(-n.acc) /\ checks
    THEN Panicked(n, "attempt to negate with overflow")
    ELSE Ok([n EXCEPT !.acc = IF n.acc < 0 THEN Wrap16(-n.acc) ELSE n.acc])

\* self.acc = self.acc.neg()
NegateAcc(n, checks) ==
    IF ~InI16(-n.acc) /\ checks
    THEN Panicked(n, "attempt to negate with overflow")
    ELSE Ok([n EXCEPT !.acc = Wrap16(-n.acc)])

\* the match on curr_op
Execute(n, checks) ==
    LET curr_op == n.opcodes[n.pc + 1] IN
    CASE curr_op.op \in {"Add", "Sub"} ->
            LET num == ResolveValue(curr_op.val) IN
            IF num.panicked
            THEN Panicked(n, "not implemented")
            ELSE IF curr_op.op = "Add"
                 THEN Arith(n, n.acc + num.num, checks,
                            "attempt to add with overflow")
                 ELSE Arith(n, n.acc - num.num, checks,
                            "attempt to subtract with overflow")
      [] curr_op.op = "Swap" -> Ok(SwapRegs(n))
      [] curr_op.op = "Save" -> Ok(SaveRegs(n))
      [] curr_op.op = "Negate" -> NegateAcc(n, checks)

NodeStepSkipEmpty(n, checks) ==
    IF n.pc >= Len(n.opcodes)
    THEN Ok(n)
    ELSE LET r == Execute(n, checks) IN
         IF r.panicked THEN r ELSE Ok(Advance(r.node))

\* Node::step
NodeStep(n, checks) ==
    IF n.pc >= Len(n.opcodes)
    THEN Panicked(n, "index out of bounds")
    ELSE LET r == Execute(n, checks) IN
         IF r.panicked THEN r ELSE Ok(Advance(r.node))

NextIndexSkip(c) == c + 2

\* the iterator of `for node in self.nodes.iter_mut()` moves to the next node
NextIndex(c) == c + 1

\* the pre-state of a step, as kept in the history variable log
LogEntry(n) == [index |-> n.pc, acc |-> n.acc, bak |-> n.bak]

-----------------------------------------------------------------------------
(* main's input handling *)

\* what one read_line call can append: nothing (end of input) or one line
Lines == { << >>, <<"a", "\n">>, <<"q", "\n">>, <<"a", "Q", "\n">> }

LowerChar(c) == IF c = "Q" THEN "q" ELSE c

\* str::to_ascii_lowercase
ToAsciiLowercase(s) == [i \in 1..Len(s) |-> LowerChar(s[i])]

ContainsFirst(s, c) == Len(s) > 0 /\ s[1] = c

\* str::contains(char)
Contains(s, c) == \E i \in 1..Len(s) : s[i] = c

QuitRequestedCaseSensitive(s) == Contains(s, "q")

\* input.to_ascii_lowercase().contains('q')
QuitRequested(s) == Contains(ToAsciiLowercase(s), "q")

-----------------------------------------------------------------------------
(* impl Display for Value, Opcode and Cpu.  Texts are sequences of           *)
(* characters.                                                               *)

DigitChars == <<"0", "1", "2", "3", "4", "5", "6", "7", "8", "9">>

RECURSIVE NatText(_)
\* the decimal digits of a natural number
NatText(n) ==
    IF n < 10 THEN <<DigitChars[n + 1]>>
              ELSE NatText(n \div 10) \o <<DigitChars[(n % 10) + 1]>>

\* "{}" of an i16
IntText(n) == IF n < 0 THEN <<"-">> \o NatText(0 - n) ELSE NatText(n)

\* "{:?}" of a Port: the name of the variant
PortText(p) ==
    CASE p = "Left" -> <<"L", "e", "f", "t">>
      [] p = "Right" -> <<"R", "i", "g", "h", "t">>
      [] p = "Up" -> <<"U", "p">>
      [] p = "Down" -> <<"D", "o", "w", "n">>
      [] p = "Any" -> <<"A", "n", "y">>
      [] p = "Last" -> <<"L", "a", "s", "t">>

\* impl Display for Value
ValueText(v) == IF v.tag = "Number" THEN IntText(v.num) ELSE PortText(v.port)

\* impl Display for Opcode
OpcodeText(o) ==
    CASE o.op = "Add" -> <<"A", "D", "D", " ">> \o ValueText(o.val)
      [] o.op = "Sub" -> <<"S", "U", "B", " ">> \o ValueText(o.val)
      [] o.op = "Swap" -> <<"S", "W", "P">>
      [] o.op = "Save" -> <<"S", "A", "V">>
      [] o.op = "Negate" -> <<"N", "E", "G">>

\* " ".repeat(k), nothing for k <= 0
Spaces(k) == [j \in 1..(IF k > 0 THEN k ELSE 0) |-> " "]

\* "{:width$}" of a text: padded on the right, never cut
PadRight(t, width) == t \o Spaces(width - Len(t))

\* "{:4}" of a number: padded on the left, never cut
PadLeft(t, width) == Spaces(width - Len(t)) \o t

NodeWidth == 22

\* the rows of `for instr in 0..6`
InstrRows == 6

\* the register line of a node, between its two bars
HeaderText(n) ==
    PadRight(<<" ", "A", "C", "C", ":", " ">> \o PadLeft(IntText(n.acc), 4)
             \o <<" ", "B", "A", "K", ":", " ">> \o PadLeft(IntText(n.bak), 4),
             NodeWidth)

\* the line of row `instr` of a node, between its two bars
RowText(n, instr) ==
    (IF n.pc = instr THEN <<">", " ">> ELSE <<" ", " ">>)
    \o (IF instr < Len(n.opcodes)
        THEN PadRight(OpcodeText(n.opcodes[instr + 1]), NodeWidth - 2)
        ELSE PadRight(<<" ">>, NodeWidth - 2))

\* what the view shows of one node
NodePanel(n) ==
    [header |-> HeaderText(n),
     rows |-> [r \in 1..InstrRows |-> RowText(n, r - 1)]]

\* let node_index = row * columns + col
NodeIndex(row, col) == row * 2 + col

\* impl Display for Cpu: two rows of two panels
RenderCpu(ns) ==
    [row \in 0..1 |-> [col \in 0..1 |-> NodePanel(ns[NodeIndex(row, col)])]]

-----------------------------------------------------------------------------
(* Configurations *)

\* the four programs main pushes
MainPrograms ==
    [i \in NodeIds |->
        CASE i = 0 -> <<Add(Number(1)), Save, Add(Number(1)), Swap, Negate>>
          [] i = 1 -> <<Add(Number(2)), Sub(Number(400))>>
          [] i = 2 -> <<Add(Number(-400))>>
          [] i = 3 -> <<Add(Number(1)), Sub(Number(2)), Sub(Number(4)), Sub(Number(5))>>]

\* programs a grid node may be configured with
GridPrograms ==
    { MainPrograms[0],
      MainPrograms[1],
      <<Add(Number(32767))>>,
      <<Sub(Number(999)), Sub(Number(I16Min))>>,
      << >>,
      <<Save, Add(Port("Left"))>>,
      <<Sub(Port("Any"))>> }

\* literals used by the single-node programs
Literals == {0, 1, -400, 999, 31769, I16Max, I16Min}

\* register values a node may be constructed with
RegValues == {I16Min, -1000, -999, -1, 0, 5, 999, 1000, I16Max}

Operands == {Number(k) : k \in Literals} \cup {Port(p) : p \in Ports}

\* programs of the node exercised by direct Node::step calls
NodePrograms ==
    {<<Add(v)>> : v \in Operands} \cup {<<Sub(v)>> : v \in Operands}
    \cup { <<Swap>>, <<Save>>, <<Negate>>,
           <<Swap, Swap>>, <<Save, Save>>, <<Negate, Negate>>,
           <<Save, Sub(Port("Up"))>>,
           MainPrograms[0], MainPrograms[3],
           <<Add(Number(1)), Save, Add(Number(1)), Swap, Negate, Save, Swap>> }

AllLiteral(prog) == \A k \in 1..Len(prog) : prog[k].val.tag # "Port"

-----------------------------------------------------------------------------
(* The program under main's loop, for any configuration of the four nodes *)

Init ==
    /\ nodes \in [NodeIds -> {[DefaultNode EXCEPT !.opcodes = p] : p \in GridPrograms}]
    /\ overflow_checks \in BOOLEAN
    /\ loc = "render"
    /\ cur = 0
    /\ input = << >>
    /\ outcome = "running"
    /\ panic = NoPanic
    /\ log = [i \in NodeIds |-> << >>]
    /\ snapshot = nodes
    /\ called = NoNode
    /\ renders = 0
    /\ reads = 0
    /\ sweeps = 0
    /\ lines = << >>

\* println!("{}", cpu)
Render ==
    /\ loc = "render"
    /\ renders < MaxSweeps
    /\ loc' = "read"
    /\ renders' = renders + 1
    /\ UNCHANGED <<nodes, overflow_checks, cur, input, outcome, panic,
                   log, snapshot, called, reads, sweeps, lines>>

\* read_line(&mut input) returned Ok: the line is appended, Cpu::step is entered
ReadLine ==
    /\ loc = "read"
    /\ \E line \in Lines : input' = input \o line /\ lines' = Append(lines, line)
    /\ loc' = "step"
    /\ cur' = 0
    /\ snapshot' = nodes
    /\ reads' = reads + 1
    /\ UNCHANGED <<nodes, overflow_checks, outcome, panic, log, called,
                   renders, sweeps>>

\* read_line(&mut input)? returned Err: main returns it
ReadError ==
    /\ loc = "read"
    /\ loc' = "done"
    /\ outcome' = "ioerr"
    /\ UNCHANGED <<nodes, overflow_checks, cur, input, panic, log, snapshot,
                   called, renders, reads, sweeps, lines>>

\* one iteration of the for loop of Cpu::step: node.step() on the next node
CpuStepNode ==
    /\ loc = "step"
    /\ cur \in NodeIds
    /\ called' = cur
    /\ LET r == NodeStep(nodes[cur], overflow_checks) IN
       /\ nodes' = [nodes EXCEPT ![cur] = r.node]
       /\ IF r.panicked
          THEN /\ loc' = "done"
               /\ outcome' = "panic"
               /\ panic' = r.msg
               /\ UNCHANGED <<cur, log>>
          ELSE /\ log' = [log EXCEPT ![cur] = Append(@, LogEntry(nodes[cur]))]
               /\ cur' = NextIndex(cur)
               /\ UNCHANGED <<loc, outcome, panic>>
    /\ UNCHANGED <<overflow_checks, input, snapshot, renders, reads, sweeps, lines>>

\* the for loop of Cpu::step is exhausted: Cpu::step returns
CpuStepReturn ==
    /\ loc = "step"
    /\ cur \notin NodeIds
    /\ loc' = "check"
    /\ sweeps' = sweeps + 1
    /\ UNCHANGED <<nodes, overflow_checks, cur, input, outcome, panic,
                   log, snapshot, called, renders, reads, lines>>

\* if input.to_ascii_lowercase().contains('q') { break }
QuitCheck ==
    /\ loc = "check"
    /\ IF QuitRequested(input)
       THEN loc' = "done" /\ outcome' = "quit"
       ELSE loc' = "render" /\ UNCHANGED outcome
    /\ UNCHANGED <<nodes, overflow_checks, cur, input, panic, log, snapshot,
                   called, renders, reads, sweeps, lines>>

Next ==
    \/ Render
    \/ ReadLine
    \/ ReadError
    \/ CpuStepNode
    \/ CpuStepReturn
    \/ QuitCheck

Spec == Init /\ [][Next]_vars

-----------------------------------------------------------------------------
(* Direct calls of Node::step on a node constructed with any registers *)

InitNode ==
    /\ \E n0 \in [acc : RegValues, bak : RegValues, opcodes : NodePrograms, pc : {0}] :
          nodes = [i \in NodeIds |-> IF i = 0 THEN n0 ELSE DefaultNode]
    /\ overflow_checks \in BOOLEAN
    /\ loc = "render"
    /\ cur = 0
    /\ input = << >>
    /\ outcome = "running"
    /\ panic = NoPanic
    /\ log = [i \in NodeIds |-> << >>]
    /\ snapshot = nodes
    /\ called = NoNode
    /\ renders = 0
    /\ reads = 0
    /\ sweeps = 0
    /\ lines = << >>

\* nodes[i].step()
NodeStepCall(i) ==
    /\ outcome = "running"
    /\ Len(log[i]) < MaxSteps
    /\ snapshot' = nodes
    /\ called' = i
    /\ LET r == NodeStep(nodes[i], overflow_checks) IN
       /\ nodes' = [nodes EXCEPT ![i] = r.node]
       /\ IF r.panicked
          THEN /\ outcome' = "panic"
               /\ panic' = r.msg
               /\ UNCHANGED log
          ELSE /\ log' = [log EXCEPT ![i] = Append(@, LogEntry(nodes[i]))]
               /\ UNCHANGED <<outcome, panic>>
    /\ UNCHANGED <<overflow_checks, loc, cur, input, renders, reads, sweeps, lines>>

NextNode == \E i \in NodeIds : NodeStepCall(i)

SpecNode == InitNode /\ [][NextNode]_vars

-----------------------------------------------------------------------------
(* main's loop run without end: the history variables log, lines, renders   *)
(* and reads are not kept, sweeps stops counting at MaxSweeps, and every    *)
(* read finds the end of the input or a line that asks to quit.             *)

\* what one read_line call can append in these runs
RunLines == { << >>, <<"q", "\n">> }

\* a second configuration of programs whose literals lie in [-999, 999]
OtherPrograms ==
    [i \in NodeIds |->
        CASE i = 0 -> <<Add(Number(999)), Negate>>
          [] i = 1 -> <<Sub(Number(999)), Swap, Sub(Number(-999))>>
          [] i = 2 -> <<Negate>>
          [] i = 3 -> <<Save, Add(Number(-999)), Swap, Sub(Number(999)), Negate>>]

RunConfigs == {MainPrograms, OtherPrograms}

InitRun ==
    /\ \E progs \in RunConfigs :
          nodes = [i \in NodeIds |-> [DefaultNode EXCEPT !.opcodes = progs[i]]]
    /\ overflow_checks \in BOOLEAN
    /\ loc = "render"
    /\ cur = 0
    /\ input = << >>
    /\ outcome = "running"
    /\ panic = NoPanic
    /\ log = [i \in NodeIds |-> << >>]
    /\ snapshot = nodes
    /\ called = NoNode
    /\ renders = 0
    /\ reads = 0
    /\ sweeps = 0
    /\ lines = << >>

\* println!("{}", cpu)
RunRender ==
    /\ loc = "render"
    /\ loc' = "read"
    /\ UNCHANGED <<nodes, overflow_checks, cur, input, outcome, panic,
                   log, snapshot, called, renders, reads, sweeps, lines>>

\* read_line(&mut input) returned Ok: the line is appended, Cpu::step is entered
RunReadLine ==
    /\ loc = "read"
    /\ \E line \in RunLines : input' = input \o line
    /\ loc' = "step"
    /\ cur' = 0
    /\ snapshot' = nodes
    /\ UNCHANGED <<nodes, overflow_checks, outcome, panic, log, called,
                   renders, reads, sweeps, lines>>

\* one iteration of the for loop of Cpu::step: node.step() on the next node
RunStepNode ==
    /\ loc = "step"
    /\ cur \in NodeIds
    /\ called' = cur
    /\ LET r == NodeStep(nodes[cur], overflow_checks) IN
       /\ nodes' = [nodes EXCEPT ![cur] = r.node]
       /\ IF r.panicked
          THEN /\ loc' = "done"
               /\ outcome' = "panic"
               /\ panic' = r.msg
               /\ UNCHANGED cur
          ELSE /\ cur' = NextIndex(cur)
               /\ UNCHANGED <<loc, outcome, panic>>
    /\ UNCHANGED <<overflow_checks, input, log, snapshot, renders, reads,
                   sweeps, lines>>

\* the for loop of Cpu::step is exhausted: Cpu::step returns
RunStepReturn ==
    /\ loc = "step"
    /\ cur \notin NodeIds
    /\ loc' = "check"
    /\ sweeps' = IF sweeps < MaxSweeps THEN sweeps + 1 ELSE sweeps
    /\ UNCHANGED <<nodes, overflow_checks, cur, input, outcome, panic,
                   log, snapshot, called, renders, reads, lines>>

NextRun ==
    \/ RunRender
    \/ RunReadLine
    \/ ReadError
    \/ RunStepNode
    \/ RunStepReturn
    \/ QuitCheck

SpecRun == InitRun /\ [][NextRun]_vars

\* the loop is one thread that always takes its next step, and a line (or the
\* end of the input) arrives at every read
FairRun == SpecRun /\ WF_vars(NextRun)

-----------------------------------------------------------------------------
(* Properties *)

InRange(x) == -999 <= x /\ x <= 999

\* the state of the node of the last Node::step call, before that call
Pre == snapshot[called]

\* the state of the node of the last Node::step call, now
Post == nodes[called]

\* the instruction the last Node::step call was to execute
PreOp == Pre.opcodes[Pre.pc + 1]

\* the last Node::step call had an instruction to fetch
Fetched == called # NoNode /\ Pre.pc < Len(Pre.opcodes)

\* C1: from an all-zero grid, whatever the literal-only programs do and
\* however many sweeps are made, acc and bak of every node stay in
\* [-999, 999].
C1_RegisterRange ==
    \A i \in NodeIds :
        AllLiteral(nodes[i].opcodes) => InRange(nodes[i].acc) /\ InRange(nodes[i].bak)

\* a node that keeps adding 32767 has been pinned at a bound three times,
\* the second time after the 16-bit sum wrapped
C1_Witness ==
    \E i \in NodeIds :
        /\ nodes[i].opcodes = <<Add(Number(32767))>>
        /\ Len(log[i]) = 3
        /\ log[i][2].acc = 999
        /\ log[i][3].acc = -999
        /\ nodes[i].acc = 999

\* C2 (as claimed): a Node::step on Add(Number(n)) or Sub(Number(n)) from an
\* acc in [-999, 999] completes and leaves acc at the mathematical
\* clamp(acc + n) resp. clamp(acc - n), with bak unchanged.
C2_SaturatingArithmetic ==
    (/\ Fetched
     /\ PreOp.op \in {"Add", "Sub"}
     /\ PreOp.val.tag = "Number"
     /\ InRange(Pre.acc))
    => /\ outcome # "panic"
       /\ Post.bak = Pre.bak
       /\ Post.acc = IF PreOp.op = "Add"
                     THEN IF Pre.acc + PreOp.val.num > 999 THEN 999
                          ELSE IF Pre.acc + PreOp.val.num < -999 THEN -999
                          ELSE Pre.acc + PreOp.val.num
                     ELSE IF Pre.acc - PreOp.val.num > 999 THEN 999
                          ELSE IF Pre.acc - PreOp.val.num < -999 THEN -999
                          ELSE Pre.acc - PreOp.val.num

\* C3: a node with a non-empty program always has 0 <= pc < len(program).
C3_PcInvariant ==
    \A i \in NodeIds :
        Len(nodes[i].opcodes) > 0 =>
            0 <= nodes[i].pc /\ nodes[i].pc < Len(nodes[i].opcodes)

\* the five-instruction program has run past its last instruction
C3_Witness ==
    /\ Len(nodes[0].opcodes) = 5
    /\ Len(log[0]) = 6
    /\ log[0][5].index = 4
    /\ log[0][6].index = 0
    /\ nodes[0].pc = 1

\* C4: a node with a literal-only program of length n >= 1 that has completed
\* exactly n steps from pc = 0 is back at pc = 0, and those steps executed the
\* indices 0, 1, ..., n-1 in this order.
C4_PcWraparound ==
    \A i \in NodeIds :
        LET n == Len(nodes[i].opcodes) IN
        (n >= 1 /\ AllLiteral(nodes[i].opcodes) /\ Len(log[i]) = n)
        => /\ nodes[i].pc = 0
           /\ \A k \in 1..n : log[i][k].index = k - 1

\* the four-instruction program has completed its fourth step
C4_Witness ==
    /\ nodes[0].opcodes = MainPrograms[3]
    /\ Len(log[0]) = 4
    /\ nodes[0].pc = 0

\* what Node::step makes of the node as it was when the sweep began
Stepped(i) == NodeStep(snapshot[i], overflow_checks)

\* C5: when Cpu::step has returned, every node has completed exactly one step
\* in this sweep: its pc moved by one position modulo its own program length
\* and the effect of the one instruction at its old pc is applied; so after k
\* sweeps node i has completed k steps and has pc = k mod len(program_i).
C5_LockstepSweep ==
    /\ loc = "check" =>
          \A i \in NodeIds :
              /\ ~Stepped(i).panicked
              /\ nodes[i] = Stepped(i).node
              /\ nodes[i].pc = (snapshot[i].pc + 1) % Len(nodes[i].opcodes)
              /\ log[i][Len(log[i])] = LogEntry(snapshot[i])
    /\ (loc \in {"check", "render", "read"} \/ outcome = "quit") =>
          \A i \in NodeIds :
              /\ Len(log[i]) = sweeps
              /\ sweeps > 0 => /\ Len(nodes[i].opcodes) > 0
                               /\ nodes[i].pc = sweeps % Len(nodes[i].opcodes)

\* three sweeps over programs of lengths 5, 2, 1 and 2
C5_Witness ==
    /\ loc = "check"
    /\ sweeps = 3
    /\ nodes[0].opcodes = MainPrograms[0] /\ nodes[0].pc = 3
    /\ nodes[1].opcodes = MainPrograms[1] /\ nodes[1].pc = 1
    /\ nodes[2].opcodes = <<Add(Number(32767))>> /\ nodes[2].pc = 0
    /\ Len(nodes[3].opcodes) = 2 /\ nodes[3].pc = 1

\* C6: inside Cpu::step the nodes are stepped in index order, one completed
\* before the next begins; when the step of node j panics, the nodes below j
\* keep what their step of this sweep did, node j and the nodes above it are
\* as they were when the sweep began, and Cpu::step does not return.
C6_FailFast ==
    /\ loc = "step" =>
          \A i \in NodeIds :
              IF i < cur
              THEN Len(log[i]) = sweeps + 1 /\ nodes[i] = Stepped(i).node
              ELSE Len(log[i]) = sweeps /\ nodes[i] = snapshot[i]
    /\ outcome = "panic" =>
          /\ loc = "done"
          /\ sweeps = reads - 1
          /\ \A i \in NodeIds :
                IF i < called
                THEN /\ Len(log[i]) = sweeps + 1
                     /\ ~Stepped(i).panicked
                     /\ nodes[i] = Stepped(i).node
                ELSE /\ Len(log[i]) = sweeps
                     /\ nodes[i] = snapshot[i]

\* node 2 fails in the second sweep, after nodes 0 and 1 changed their registers
C6_Witness ==
    /\ outcome = "panic"
    /\ called = 2
    /\ sweeps = 1
    /\ nodes[0].acc # snapshot[0].acc
    /\ nodes[1].acc # snapshot[1].acc
    /\ Len(nodes[3].opcodes) > 0
    /\ nodes[3] = snapshot[3]

\* C7: a Node::step whose instruction is Add or Sub of a port panics with
\* "not implemented" and leaves acc, bak and pc of the node as they were.
C7_UnsupportedOperand ==
    (Fetched /\ PreOp.op \in {"Add", "Sub"} /\ PreOp.val.tag = "Port")
    => /\ outcome = "panic"
       /\ panic = "not implemented"
       /\ Post.acc = Pre.acc
       /\ Post.bak = Pre.bak
       /\ Post.pc = Pre.pc

\* the second instruction of a program is a Sub of a port
C7_Witness ==
    /\ outcome = "panic"
    /\ called = 0
    /\ Len(log[0]) = 1
    /\ PreOp = Sub(Port("Up"))
    /\ Pre.acc = 5
    /\ nodes[0].acc = 5 /\ nodes[0].bak = 5 /\ nodes[0].pc = 1

\* the buffer holds the letter q in either case
HasQ(s) == \E k \in 1..Len(s) : s[k] \in {"q", "Q"}

\* C8: the loop renders, reads, steps and checks once each per iteration and
\* in this order: the counts of renders, reads and returned sweeps agree with
\* the position in the loop; no q has been read before the current
\* iteration; and the loop quits exactly when the line just read holds a q,
\* after the sweep that line triggered.
C8_DriverOrdering ==
    /\ loc = "render" => renders = sweeps /\ reads = sweeps /\ ~HasQ(input)
    /\ loc = "read" => renders = sweeps + 1 /\ reads = sweeps /\ ~HasQ(input)
    /\ loc = "step" => renders = sweeps + 1 /\ reads = sweeps + 1
    /\ loc = "check" => renders = sweeps /\ reads = sweeps /\ sweeps > 0
    /\ outcome = "quit" =>
          /\ loc = "done"
          /\ HasQ(input)
          /\ renders = sweeps /\ reads = sweeps /\ sweeps > 0
          /\ \A i \in NodeIds : Len(log[i]) = reads

\* the second line read holds an upper-case Q after another character
C8_Witness ==
    /\ outcome = "quit"
    /\ input = <<"a", "\n", "a", "Q", "\n">>
    /\ sweeps = 2

\* the node index a panic message names: the messages of Node::step are fixed
\* texts that carry no node index
ReportedNode(m) == NoNode

\* the instruction a panic message names: the messages carry no instruction
ReportedInstruction(m) == NoValue

\* C9 (as claimed): when a Node::step panics during a sweep of the loop, the
\* loop ends, the node is not stepped again, and the failure names the node
\* and the instruction that failed.
C9_FailureReporting ==
    outcome = "panic" =>
        /\ loc = "done"
        /\ ReportedNode(panic) = called
        /\ Fetched => ReportedInstruction(panic) = PreOp

\* the k-th completed step of node i executed this instruction
OpAt(i, k) == nodes[i].opcodes[log[i][k].index + 1]

\* acc and bak of node i after its k-th completed step
RegsAfter(i, k) ==
    IF k < Len(log[i])
    THEN [acc |-> log[i][k + 1].acc, bak |-> log[i][k + 1].bak]
    ELSE [acc |-> nodes[i].acc, bak |-> nodes[i].bak]

\* C10: a step on Swap turns (acc, bak) into (bak, acc) whatever the values,
\* and a second Swap step right after it gives back the original (acc, bak).
C10_SwapInvolution ==
    \A i \in NodeIds : \A k \in 1..Len(log[i]) :
        OpAt(i, k) = Swap =>
            /\ RegsAfter(i, k) = [acc |-> log[i][k].bak, bak |-> log[i][k].acc]
            /\ (k < Len(log[i]) /\ OpAt(i, k + 1) = Swap) =>
                  RegsAfter(i, k + 1) = [acc |-> log[i][k].acc, bak |-> log[i][k].bak]

\* two Swap steps on registers that lie outside [-999, 999]
C10_Witness ==
    /\ nodes[0].opcodes = <<Swap, Swap>>
    /\ Len(log[0]) = 2
    /\ log[0][1].acc = I16Min /\ log[0][1].bak = 1000
    /\ log[0][2].acc = 1000 /\ log[0][2].bak = I16Min
    /\ nodes[0].acc = I16Min /\ nodes[0].bak = 1000

\* C11: a step on Negate from an acc in [-999, 999] completes, turns acc into
\* -acc (so 0 stays 0), leaves bak alone and keeps acc in [-999, 999]; a
\* second Negate step right after it gives back the original acc.
C11_Negation ==
    /\ (Fetched /\ PreOp = Negate /\ InRange(Pre.acc)) => outcome # "panic"
    /\ \A i \in NodeIds : \A k \in 1..Len(log[i]) :
          (OpAt(i, k) = Negate /\ InRange(log[i][k].acc)) =>
              /\ RegsAfter(i, k) = [acc |-> 0 - log[i][k].acc, bak |-> log[i][k].bak]
              /\ InRange(RegsAfter(i, k).acc)
              /\ log[i][k].acc = 0 => RegsAfter(i, k).acc = 0
              /\ (k < Len(log[i]) /\ OpAt(i, k + 1) = Negate) =>
                    RegsAfter(i, k + 1) = [acc |-> log[i][k].acc, bak |-> log[i][k].bak]

\* two Negate steps from acc = 5 with overflow checks on
C11_Witness ==
    /\ nodes[0].opcodes = <<Negate, Negate>>
    /\ overflow_checks
    /\ Len(log[0]) = 2
    /\ log[0][1].acc = 5
    /\ log[0][2].acc = -5
    /\ nodes[0].acc = 5

\* C12: a step on Save copies acc into bak and leaves acc alone; a second
\* Save step right after it changes neither register.
C12_SaveIdempotence ==
    \A i \in NodeIds : \A k \in 1..Len(log[i]) :
        OpAt(i, k) = Save =>
            /\ RegsAfter(i, k) = [acc |-> log[i][k].acc, bak |-> log[i][k].acc]
            /\ (k < Len(log[i]) /\ OpAt(i, k + 1) = Save) =>
                  RegsAfter(i, k + 1) = RegsAfter(i, k)

\* two Save steps on registers that differed
C12_Witness ==
    /\ nodes[0].opcodes = <<Save, Save>>
    /\ Len(log[0]) = 2
    /\ log[0][1].acc = 5 /\ log[0][1].bak = -1
    /\ log[0][2].acc = 5 /\ log[0][2].bak = 5
    /\ nodes[0].acc = 5 /\ nodes[0].bak = 5

\* C14: a step of the loop changes no node's program, and changes the
\* registers and pc of no node but the one Node::step was called on.
C14_Frame ==
    [][ /\ \A i \in NodeIds : nodes'[i].opcodes = nodes[i].opcodes
        /\ \A i \in NodeIds : nodes'[i] # nodes[i] => i = called' ]_vars

\* node 1 has just been stepped in the second sweep, between a stepped node 0
\* and the not yet stepped nodes 2 and 3
C14_Witness ==
    /\ loc = "step"
    /\ sweeps = 1
    /\ called = 1 /\ cur = 2
    /\ nodes[1].opcodes = MainPrograms[1]
    /\ nodes[1].acc = -398
    /\ nodes[0].opcodes = MainPrograms[0]
    /\ \A i \in {2, 3} : nodes[i].opcodes = <<Add(Number(32767))>> /\ nodes[i] = snapshot[i]

\* the nodes whose program is empty
EmptyNodes == {i \in NodeIds : nodes[i].opcodes = << >>}

\* the first of them in index order
FirstEmpty == CHOOSE i \in EmptyNodes : \A j \in EmptyNodes : i <= j

\* C15: in a grid that holds a node with an empty program no Cpu::step ever
\* returns: the first sweep never gets past the first such node, whose
\* Node::step panics at the fetch and leaves acc, bak and pc as they were;
\* unless an earlier node failed, that node is where the sweep fails.
C15_EmptyProgram ==
    EmptyNodes # {} =>
        /\ sweeps = 0
        /\ cur <= FirstEmpty
        /\ \A i \in NodeIds :
              i >= FirstEmpty => log[i] = << >> /\ nodes[i] = snapshot[i]
        /\ called = FirstEmpty =>
              /\ outcome = "panic"
              /\ panic = "index out of bounds"
              /\ nodes[called] = DefaultNode
        /\ (outcome = "panic" /\ \A j \in 0..(FirstEmpty - 1) : ~Stepped(j).panicked)
              => called = FirstEmpty /\ panic = "index out of bounds"

\* nodes 2 and 3 have no program: the first sweep stepped nodes 0 and 1 and
\* failed at node 2
C15_Witness ==
    /\ EmptyNodes = {2, 3}
    /\ outcome = "panic"
    /\ panic = "index out of bounds"
    /\ called = 2
    /\ Len(log[0]) = 1 /\ Len(log[1]) = 1
    /\ nodes[0] # snapshot[0]
    /\ nodes[2] = DefaultNode

\* node 0 runs the five-instruction program of main from acc = bak = 0 and
\* has completed five steps
FiveSteps ==
    /\ nodes[0].opcodes = MainPrograms[0]
    /\ Len(log[0]) = 5
    /\ log[0][1].acc = 0 /\ log[0][1].bak = 0

\* C16 (as claimed): after the five steps acc = 2 and bak = 1.
C16_AsClaimed == FiveSteps => nodes[0].acc = 2 /\ nodes[0].bak = 1

\* C16 (amended): the five steps take (acc, bak) through (1,0), (1,1), (2,1),
\* (1,2) to acc = -1 and bak = 2; acc = 2, bak = 1 is the state after three
\* steps.
C16_EndToEnd ==
    FiveSteps =>
        /\ RegsAfter(0, 1) = [acc |-> 1, bak |-> 0]
        /\ RegsAfter(0, 2) = [acc |-> 1, bak |-> 1]
        /\ RegsAfter(0, 3) = [acc |-> 2, bak |-> 1]
        /\ RegsAfter(0, 4) = [acc |-> 1, bak |-> 2]
        /\ nodes[0].acc = -1 /\ nodes[0].bak = 2
        /\ nodes[0].pc = 0

C16_Witness == FiveSteps /\ nodes[0].acc = -1 /\ nodes[0].bak = 2 /\ called = 0

\* the panel the view shows for node i
PanelOf(i) == RenderCpu(nodes)[i \div 2][i % 2]

\* the rows of a panel that carry the marker
MarkedRows(p) == {r \in 1..Len(p.rows) : p.rows[r][1] = ">"}

\* C17 (as claimed): for every node with a program, the view shows acc and
\* bak, one row per instruction of the program, in order, and the marker on
\* the row of the instruction at pc and on no other row.
C17_Rendering ==
    \A i \in NodeIds :
        LET n == nodes[i]
            p == PanelOf(i)
        IN  Len(n.opcodes) > 0 =>
                /\ p.header = PadRight(<<" ", "A", "C", "C", ":", " ">>
                                       \o PadLeft(IntText(n.acc), 4)
                                       \o <<" ", "B", "A", "K", ":", " ">>
                                       \o PadLeft(IntText(n.bak), 4), 22)
                /\ Len(p.rows) >= Len(n.opcodes)
                /\ \A k \in 1..Len(n.opcodes) :
                      SubSeq(p.rows[k], 3, 2 + Len(OpcodeText(n.opcodes[k])))
                          = OpcodeText(n.opcodes[k])
                /\ MarkedRows(p) = {n.pc + 1}

RECURSIVE Flatten(_)
\* the lines of a sequence of lines, one after the other
Flatten(ls) == IF ls = << >> THEN << >> ELSE Head(ls) \o Flatten(Tail(ls))

\* the 1-based indices of the lines read that hold a q
QLines == {k \in 1..Len(lines) : HasQ(lines[k])}

\* C18: the buffer is everything read so far; the loop quits right after the
\* sweep of the first line that holds a q, so that it has made exactly that
\* line's index many sweeps; without such a line it ends only by a read
\* error or a panic, and a quit test that finds no q starts the next
\* iteration.
C18_QuitOnFirstQ ==
    /\ [](/\ input = Flatten(lines)
          /\ Len(lines) = reads
          /\ QLines \subseteq {Len(lines)}
          /\ outcome = "quit" => QLines = {Len(lines)} /\ sweeps = Len(lines)
          /\ (loc = "done" /\ QLines = {}) => outcome \in {"ioerr", "panic"}
          /\ (loc \in {"render", "read"}) => QLines = {})
    /\ [][(loc = "check" /\ QLines = {}) => (loc' = "render" /\ outcome' = "running")]_vars

\* the third line read is the first with a q, after a line without one and an
\* empty read: the buffer holds both lines and three sweeps were made
C18_Witness ==
    /\ outcome = "quit"
    /\ lines = << <<"a", "\n">>, << >>, <<"q", "\n">> >>
    /\ input = <<"a", "\n", "q", "\n">>
    /\ sweeps = 3

\* node i has just completed the step of its instruction at index k
Executed(i, k) == outcome = "running" /\ called = i /\ snapshot[i].pc = k /\ cur # i

\* the program lengths of the unbounded runs, and the longest of them
ProgramLengths == {Len(c[i]) : c \in RunConfigs, i \in NodeIds}

LongestProgram == CHOOSE m \in ProgramLengths : \A l \in ProgramLengths : l <= m

\* C13: a node that runs a non-empty program with literals in [-999, 999]
\* from zeroed registers is never in a state where its Node::step would panic,
\* in either build, and as long as the loop runs every index of its program
\* is executed again and again.
C13_NoHalt ==
    \A i \in NodeIds :
        /\ [](/\ Len(nodes[i].opcodes) > 0
              /\ \A b \in BOOLEAN : ~NodeStep(nodes[i], b).panicked
              /\ outcome # "panic")
        /\ \A k \in 0..(LongestProgram - 1) :
              (k < Len(nodes[i].opcodes)) => []<>(Executed(i, k) \/ outcome # "running")

\* node 3 of the second configuration is at its last instruction for the
\* second time at least
C13_Witness ==
    /\ nodes[3].opcodes = OtherPrograms[3]
    /\ Executed(3, 4)
    /\ sweeps >= MaxSweeps
    /\ nodes[3].pc = 0

\* the configuration is the one main builds
IsMain == \A i \in NodeIds : nodes[i].opcodes = MainPrograms[i]

\* what the Add or Sub at the pc of node n computes before the clamp
RawResult(n) ==
    LET o == n.opcodes[n.pc + 1] IN
    IF o.op = "Add" THEN n.acc + o.val.num
    ELSE IF o.op = "Sub" THEN n.acc - o.val.num
    ELSE n.acc

\* C19: in main's configuration every program is non-empty and free of port
\* operands, no Add or Sub ever leaves the 16-bit range before the clamp, no
\* Node::step can panic in either build, and the loop ends only by the quit
\* test or by a read error.
C19_MainNeverFails ==
    IsMain =>
        /\ outcome # "panic"
        /\ loc = "done" => outcome \in {"quit", "ioerr"}
        /\ \A i \in NodeIds :
              /\ Len(nodes[i].opcodes) > 0
              /\ AllLiteral(nodes[i].opcodes)
              /\ nodes[i].pc < Len(nodes[i].opcodes)
              /\ InI16(RawResult(nodes[i]))
              /\ InI16(0 - nodes[i].acc)
              /\ \A b \in BOOLEAN : ~NodeStep(nodes[i], b).panicked

\* a sweep of main's configuration has returned with overflow checks on and
\* nodes 1, 2 and 3 at the lower bound
C19_Witness ==
    /\ IsMain
    /\ overflow_checks
    /\ loc = "check"
    /\ sweeps >= MaxSweeps
    /\ \A i \in {1, 2, 3} : nodes[i].acc = -999

\* C20: in main's configuration, as long as the loop runs, nodes 1, 2 and 3
\* each reach acc = -999; once there, their acc stays in [-999, -997]; node 2
\* is at -999 from the return of the third sweep on; their bak is always 0.
C20_SaturationAbsorbing ==
    IsMain =>
        /\ \A i \in {1, 2, 3} :
              /\ <>(nodes[i].acc = -999 \/ outcome # "running")
              /\ [](nodes[i].acc = -999 =>
                       [](-999 <= nodes[i].acc /\ nodes[i].acc <= -997))
              /\ [](nodes[i].bak = 0)
        /\ [](sweeps >= 3 => nodes[2].acc = -999)

\* node 1 has come back from -999 to -997 while node 3, saturated as well, is
\* at -998
C20_Witness ==
    /\ IsMain
    /\ nodes[1].acc = -997
    /\ nodes[2].acc = -999
    /\ nodes[3].acc = -998
    /\ Executed(3, 0)

====
